---- MODULE Spec2Model ----
(***************************************************************************)
(* Guest-side embed runtime of packages/embeds/embed-core/src/             *)
(* embed-iframe.ts, as run in a browser (isBrowser = true): the namespace  *)
(* cache, the style store and its React setters, the inbound message       *)
(* listener with the `ui` and `parentKnowsIframeReady` handlers, and the   *)
(* self-rescheduling dimension watcher.  The browser's event loop is       *)
(* modelled by an animation-frame queue (callbacks of one frame run in     *)
(* registration order, callbacks they schedule run in the next frame) and  *)
(* a FIFO queue of the 50 ms timers that runAsap uses on Safari.           *)
(* Widths are sampled and sent by the watcher but read by no condition;    *)
(* they are left out.                                                      *)
(***************************************************************************)
EXTENDS Integers, Sequences, FiniteSets, TLC

\* ---------------------------------------------------------------- bounds
\* external inputs (inbound window messages, component mounts, in-page
\* navigations) in one run of Spec
MaxInputs == 2
\* times the document's measured height changes in one run of Spec
MaxHeightChanges == 1
\* times the measured height changes in one run of SpecWatcher
MaxHeightChangesW == 53
\* watcher samples whose height and outcome are recorded in SpecWatcher
MaxHist == 4
\* external inputs (`ui` instructions and component mounts) in one run of
\* SpecStyles
MaxStyleInputs == 3
\* parentKnowsIframeReady instructions in one run of SpecHandshake
MaxAcks == 1
\* height changes the watcher has reported at most when an instruction
\* arrives in SpecHandshake while the watcher is still running
MaxAckDelay == 8

\* the limits of a specification: external inputs, height changes, recorded
\* samples
Limits(i, c, h) == [inputs |-> i, changes |-> c, hist |-> h]
SpecLimits == Limits(MaxInputs, MaxHeightChanges, 0)
WatcherLimits == Limits(0, MaxHeightChangesW, MaxHist)
StyleLimits == Limits(MaxStyleInputs, 0, 0)
HandshakeLimits == Limits(MaxAcks, MaxHeightChangesW, 0)

\* ------------------------------------------------------ program constants
\* numDimensionChanges > 50
DimensionChangeCap == 50
\* knownIframeHeight = null
NoHeight == 0

\* ------------------------------------------------------------ value sets
NullV == "<null>"
Undefined == "<undefined>"
Namespaces == {"abc"}
EmbedParams == Namespaces \cup {NullV}
PrerenderParams == {NullV, "true"}
PageStatuses == {Undefined, "200", "404"}
Plans == {"FREE", "PRO"}
Heights == {500, 800}
Targets == {"body", "eventTypeListItem"}
Comps == {"c1", "c2", "c3"}
NoComp == "<none>"

\* the element name each component passes to useEmbedStyles
ElementName(c) == IF c = "c1" THEN "body" ELSE "eventTypeListItem"

EmptyStyles == [t \in {} |-> [a \in {} |-> ""]]

Attrs(a, v) == [x \in {a} |-> v]

\* style payloads a parent sends in `ui`
StylePayloads ==
  { [t \in Targets |-> IF t = "body" THEN Attrs("background", "blue")
                                     ELSE Attrs("color", "red")],
    [t \in {"eventTypeListItem"} |-> Attrs("background", "blue")] }

\* the argument of an instruction: missing, an object without `styles`,
\* or a UiConfig
NoArg == [kind |-> "undefined", styles |-> EmptyStyles]
Args == {NoArg, [kind |-> "nostyles", styles |-> EmptyStyles]}
          \cup {[kind |-> "config", styles |-> p] : p \in StylePayloads}

Originators == {"CAL", "OTHER", Undefined}
\* method values: the two handlers, a name methods does not have, a callable
\* and a non-callable property inherited from Object.prototype, a number,
\* and no method at all
MethodValues == {"ui", "parentKnowsIframeReady", "unknownMethod",
                 "toString", "__proto__", "<number>", Undefined}
IsString(m) == m \notin {"<number>", Undefined}
\* e.data is null
NoData == [originator |-> "<nodata>", method |-> Undefined, arg |-> NoArg]
Messages == {NoData} \cup [originator : Originators, method : MethodValues, arg : Args]

VARIABLES
  \* environment
  isSafariBrowser, isTop, urlEmbed, urlPrerender, CalComPlan, readyState,
  \* module state
  loaded, listening, busSubscribed,
  \* embedStore
  namespace, styles, setters, parentInformedAboutContentHeight,
  windowLoadEventFired,
  \* document.body.style
  bodyBackground, bodyDisplay,
  \* closure of keepParentInformedAboutDimensionChanges
  watcherStarted, knownIframeHeight, numDimensionChanges, isFirstTime,
  isWindowLoadComplete, settleTimer, warned,
  \* event loop
  rafNext, rafCurrent, timers,
  \* React components using useEmbedStyles
  mounted, compStyles,
  \* history
  sent, applied, lastInvoked, inputs, uiReceived, pkirReceived, pkirPhase, threw,
  lastMsg, nsFirst, nsRet, nsUrlAtCall, sampleHist, firedHist, measuredHist, growth, redeferred

envVars == <<isSafariBrowser, isTop, urlEmbed, urlPrerender, CalComPlan,
            readyState>>
bootVars == <<loaded, listening, busSubscribed>>
styleVars == <<styles, setters, bodyBackground, mounted, compStyles, applied,
               lastInvoked, redeferred, uiReceived>>
watchVars == <<watcherStarted, knownIframeHeight, numDimensionChanges,
               isFirstTime, isWindowLoadComplete, settleTimer, warned,
               windowLoadEventFired, parentInformedAboutContentHeight,
               sampleHist, firedHist, measuredHist, growth>>
queueVars == <<rafNext, rafCurrent, timers>>
nsVars == <<namespace, nsFirst, nsRet, nsUrlAtCall>>
ackVars == <<pkirReceived, pkirPhase>>
vars == <<envVars, bootVars, styleVars, watchVars, queueVars, nsVars,
          bodyDisplay, sent, inputs, ackVars, threw, lastMsg>>

\* a scheduled callback
Callback(fn, id, arg) == [fn |-> fn, id |-> id, arg |-> arg]

Init ==
  /\ isSafariBrowser \in BOOLEAN
  /\ isTop \in BOOLEAN
  /\ urlEmbed \in EmbedParams
  /\ urlPrerender \in PrerenderParams
  /\ CalComPlan = Undefined
  /\ readyState = "loading"
  /\ loaded = FALSE /\ listening = FALSE /\ busSubscribed = FALSE
  /\ namespace = NullV
  /\ styles = EmptyStyles
  /\ setters = [t \in Targets |-> NoComp]
  /\ parentInformedAboutContentHeight = FALSE
  /\ windowLoadEventFired = FALSE
  /\ bodyBackground = ""
  \* the page shell renders the body of an embed hidden
  /\ bodyDisplay = IF urlEmbed # NullV THEN "none" ELSE ""
  /\ watcherStarted = FALSE
  /\ knownIframeHeight = NoHeight
  /\ numDimensionChanges = 0
  /\ isFirstTime = TRUE
  /\ isWindowLoadComplete = FALSE
  /\ settleTimer = FALSE
  /\ warned = FALSE
  /\ rafNext = <<>> /\ rafCurrent = <<>> /\ timers = <<>>
  /\ mounted = {}
  /\ compStyles = [c \in Comps |-> EmptyStyles]
  /\ sent = <<>>
  /\ applied = <<>>
  /\ lastInvoked = {}
  /\ inputs = 0 /\ uiReceived = 0 /\ pkirReceived = 0
  /\ pkirPhase = "none"
  /\ threw = FALSE
  /\ lastMsg = "none"
  /\ nsFirst = Undefined /\ nsRet = Undefined /\ nsUrlAtCall = Undefined
  /\ sampleHist = <<>> /\ firedHist = <<>>
  /\ measuredHist = <<>>
  /\ growth = "stable"
  /\ redeferred = FALSE

\* ------------------------------------------------------------- operators
Event(type, first) == [type |-> type, isFirstTime |-> first]

\* parent.postMessage({originator: "CAL", ...data}, "*")
messageParent(out, data) == Append(out, data)

\* sdkActionManager.fire: the "*" subscriber installed at bootstrap forwards
\* the event to the parent, synchronously
fire(out, subscribed, ev) == IF subscribed THEN messageParent(out, ev) ELSE out

isValidNamespace(ns) == ns # Undefined /\ ns # NullV

getNamespaceUncached(ns, embedParam) == embedParam

\* the value getNamespace returns, which is also the value the store holds
\* afterwards
getNamespace(ns, embedParam) == IF isValidNamespace(ns) THEN ns ELSE embedParam

\* runAsap(cb): setTimeout(cb, 50) on Safari, requestAnimationFrame otherwise
runAsapTimers(tq, cb) == IF isSafariBrowser THEN Append(tq, cb) ELSE tq
runAsapRaf(rq, cb) == IF isSafariBrowser THEN rq ELSE Append(rq, cb)

\* {...styles, ...stylesConfig}
SpreadMerge(st, cfg) ==
  [t \in (DOMAIN st) \cup (DOMAIN cfg) |-> IF t \in DOMAIN cfg THEN cfg[t] ELSE st[t]]

\* embedStore.styles after setEmbedStyles(stylesConfig)
setEmbedStylesStore(old, cfg) == cfg

\* the components whose setter is in reactStylesStateSetters
RegisteredComps == {setters[t] : t \in Targets} \ {NoComp}

\* React state of every component after setEmbedStyles(stylesConfig)
setEmbedStylesStates(cs, cfg) ==
  [c \in Comps |-> IF c \in RegisteredComps THEN SpreadMerge(cs[c], cfg) ELSE cs[c]]

\* stylesConfig.body?.background, "" when absent
BodyBackgroundOf(cfg) ==
  IF "body" \in DOMAIN cfg /\ "background" \in DOMAIN cfg["body"]
  THEN cfg["body"]["background"] ELSE ""

\* log(...) calls getNamespace
LogCall ==
  /\ namespace' = getNamespace(namespace, urlEmbed)
  /\ nsRet' = getNamespace(namespace, urlEmbed)
  /\ nsFirst' = IF nsFirst = Undefined THEN getNamespace(namespace, urlEmbed) ELSE nsFirst
  /\ nsUrlAtCall' = urlEmbed

\* ----------------------------------------------------- environment steps
\* in-page navigation changes the query string of document.URL
Navigate(L) ==
  /\ loaded
  /\ rafCurrent = <<>>
  /\ inputs < L.inputs
  /\ inputs' = inputs + 1
  /\ \E e \in EmbedParams : e # urlEmbed /\ urlEmbed' = e
  /\ UNCHANGED <<isSafariBrowser, isTop, urlPrerender, CalComPlan, readyState>>
  /\ UNCHANGED <<bootVars, styleVars, watchVars, queueVars, nsVars, bodyDisplay,
                 sent, ackVars, threw, lastMsg>>

\* the surrounding page sets window.CalComPlan
SetPlan ==
  /\ loaded
  /\ rafCurrent = <<>>
  /\ \E p \in Plans : p # CalComPlan /\ CalComPlan' = p
  /\ UNCHANGED <<isSafariBrowser, isTop, urlEmbed, urlPrerender, readyState>>
  /\ UNCHANGED <<bootVars, styleVars, watchVars, queueVars, nsVars, bodyDisplay,
                 sent, inputs, ackVars, threw, lastMsg>>

\* document.readyState becomes "complete"
DocumentComplete ==
  /\ readyState = "loading"
  /\ rafCurrent = <<>>
  /\ readyState' = "complete"
  /\ UNCHANGED <<isSafariBrowser, isTop, urlEmbed, urlPrerender, CalComPlan>>
  /\ UNCHANGED <<bootVars, styleVars, watchVars, queueVars, nsVars, bodyDisplay,
                 sent, inputs, ackVars, threw, lastMsg>>

\* ------------------------------------------------------------ module load
ShouldBootstrapIgnoringPrerender(prerender, ns) == isValidNamespace(ns)

\* url.searchParams.get("prerender") !== "true" && isEmbed()
ShouldBootstrap(prerender, ns) == prerender # "true" /\ isValidNamespace(ns)

StatusOkAlways(pageStatus) == TRUE

\* !pageStatus || pageStatus == "200"
StatusOk(pageStatus) == pageStatus = Undefined \/ pageStatus = "200"

\* the module's top-level code, run with window.CalComPageStatus = pageStatus
BootstrapWith(pageStatus) ==
  /\ ~loaded
  /\ loaded' = TRUE
  /\ LET nsCalled == isSafariBrowser \/ urlPrerender # "true"
         ns1 == IF nsCalled THEN getNamespace(namespace, urlEmbed) ELSE namespace
         embed == ShouldBootstrap(urlPrerender, ns1)
         ok == StatusOk(pageStatus)
         cb == Callback("informAboutScroll", 0, NoArg)
     IN /\ namespace' = ns1
        /\ nsRet' = IF nsCalled THEN ns1 ELSE nsRet
        /\ nsFirst' = IF nsCalled THEN ns1 ELSE nsFirst
        /\ nsUrlAtCall' = IF nsCalled THEN urlEmbed ELSE nsUrlAtCall
        /\ bodyDisplay' = IF embed /\ isTop THEN "block" ELSE bodyDisplay
        /\ busSubscribed' = embed
        /\ listening' = embed
        /\ watcherStarted' = (embed /\ ok)
        /\ rafNext' = IF embed /\ ok THEN runAsapRaf(rafNext, cb) ELSE rafNext
        /\ timers' = IF embed /\ ok THEN runAsapTimers(timers, cb) ELSE timers
        /\ sent' = IF ~embed THEN sent
                   ELSE IF ok THEN fire(sent, TRUE, Event("iframeReady", FALSE))
                   ELSE fire(sent, TRUE, Event("linkFailed", FALSE))
  /\ UNCHANGED <<envVars, styleVars, rafCurrent, inputs, ackVars, threw, lastMsg>>
  /\ UNCHANGED <<knownIframeHeight, numDimensionChanges, isFirstTime,
                 isWindowLoadComplete, settleTimer, warned, windowLoadEventFired,
                 parentInformedAboutContentHeight, sampleHist, firedHist, measuredHist, growth>>

Bootstrap == \E pageStatus \in PageStatuses : BootstrapWith(pageStatus)

\* useIsEmbed / isEmbed: a call of getNamespace from the page
IsEmbedCall ==
  /\ loaded
  /\ rafCurrent = <<>>
  /\ LogCall
  /\ UNCHANGED <<envVars, bootVars, styleVars, watchVars, queueVars, bodyDisplay,
                 sent, inputs, ackVars, threw, lastMsg>>

\* ------------------------------------------------- style subscriptions
\* the effect of useEmbedStyles on mount: registerNewSetter
Register(L) ==
  /\ loaded
  /\ rafCurrent = <<>>
  /\ inputs < L.inputs
  /\ \E c \in Comps \ mounted :
       /\ mounted' = mounted \cup {c}
       /\ setters' = [setters EXCEPT ![ElementName(c)] = c]
       /\ compStyles' = [compStyles EXCEPT ![c] = styles]
  /\ inputs' = inputs + 1
  /\ UNCHANGED <<styles, bodyBackground, applied, lastInvoked, redeferred, uiReceived>>
  /\ UNCHANGED <<envVars, bootVars, watchVars, queueVars, nsVars, bodyDisplay,
                 sent, ackVars, threw, lastMsg>>

\* the cleanup of that effect on unmount: removeFromEmbedStylesSetterMap
Unregister ==
  /\ rafCurrent = <<>>
  /\ \E c \in mounted :
       /\ mounted' = mounted \ {c}
       /\ setters' = [setters EXCEPT ![ElementName(c)] = NoComp]
       /\ compStyles' = [compStyles EXCEPT ![c] = EmptyStyles]
  /\ UNCHANGED <<styles, bodyBackground, applied, lastInvoked, redeferred, uiReceived>>
  /\ UNCHANGED <<envVars, bootVars, watchVars, queueVars, nsVars, bodyDisplay,
                 sent, inputs, ackVars, threw, lastMsg>>

\* ------------------------------------------------------------ methods.ui
PlanRejectsNever(plan) == FALSE

\* window.CalComPlan && window.CalComPlan !== "PRO"
PlanRejects(plan) == plan # Undefined /\ plan # "PRO"

PlanMissingNever(plan) == FALSE

\* !window.CalComPlan
PlanMissing(plan) == plan = Undefined

\* style(uiConfig), called by the listener (fromFrame = FALSE) or by the
\* animation-frame callback it scheduled (fromFrame = TRUE)
style(arg, id, rafBase, timersBase, fromFrame) ==
  /\ LogCall
  /\ timers' = timersBase
  /\ UNCHANGED <<setters, mounted>>
  /\ uiReceived' = IF fromFrame THEN uiReceived ELSE uiReceived + 1
  /\ IF PlanRejects(CalComPlan)
     THEN /\ rafNext' = rafBase
          /\ UNCHANGED <<styles, bodyBackground, compStyles, applied, lastInvoked,
                         redeferred, threw>>
     ELSE IF arg.kind = "undefined"
     \* uiConfig.styles of undefined: TypeError
     THEN /\ threw' = TRUE
          /\ rafNext' = rafBase
          /\ UNCHANGED <<styles, bodyBackground, compStyles, applied, lastInvoked,
                         redeferred>>
     ELSE IF PlanMissing(CalComPlan)
     THEN /\ rafNext' = Append(rafBase, Callback("style", id, arg))
          /\ redeferred' = (redeferred \/ fromFrame)
          /\ UNCHANGED <<styles, bodyBackground, compStyles, applied, lastInvoked, threw>>
     ELSE IF arg.kind = "nostyles"
     \* stylesConfig.body of undefined: TypeError
     THEN /\ threw' = TRUE
          /\ rafNext' = rafBase
          /\ UNCHANGED <<styles, bodyBackground, compStyles, applied, lastInvoked,
                         redeferred>>
     ELSE /\ rafNext' = rafBase
          /\ bodyBackground' = IF BodyBackgroundOf(arg.styles) # ""
                               THEN BodyBackgroundOf(arg.styles) ELSE bodyBackground
          /\ styles' = setEmbedStylesStore(styles, arg.styles)
          /\ compStyles' = setEmbedStylesStates(compStyles, arg.styles)
          /\ lastInvoked' = RegisteredComps
          /\ applied' = Append(applied, [id |-> id, styles |-> arg.styles])
          /\ UNCHANGED <<redeferred, threw>>
  /\ UNCHANGED <<envVars, bootVars, watchVars, bodyDisplay, sent, ackVars>>

\* ----------------------------------------- methods.parentKnowsIframeReady
\* what the watcher had done when an instruction arrived: not yet sampled,
\* sampling, or stopped by the runaway guard
WatcherPhase ==
  IF warned THEN "stopped"
  ELSE IF parentInformedAboutContentHeight THEN "sampling" ELSE "unsampled"

parentKnowsIframeReady(rafBase, timersBase) ==
  /\ LogCall
  /\ pkirReceived' = pkirReceived + 1
  /\ pkirPhase' = WatcherPhase
  /\ rafNext' = runAsapRaf(rafBase, Callback("tryInformingLinkReady", 0, NoArg))
  /\ timers' = runAsapTimers(timersBase, Callback("tryInformingLinkReady", 0, NoArg))
  /\ UNCHANGED <<envVars, bootVars, styleVars, watchVars, bodyDisplay, sent, threw>>

LinkReadyRetryAlways(informed) == TRUE

LinkReadyRetryNever(informed) == FALSE

\* if (!embedStore.parentInformedAboutContentHeight) { runAsap(...); return; }
LinkReadyRetry(informed) == ~informed

LinkReadyRevealAlways(informed) == TRUE

LinkReadyRevealUninformed(informed) == ~informed

\* the statements after that return are reached
LinkReadyReveal(informed) == informed

tryInformingLinkReady(rafBase, timersBase) ==
  LET self == Callback("tryInformingLinkReady", 0, NoArg)
      retry == LinkReadyRetry(parentInformedAboutContentHeight)
      reveal == LinkReadyReveal(parentInformedAboutContentHeight)
      r1 == IF retry THEN runAsapRaf(rafBase, self) ELSE rafBase
  IN /\ timers' = IF retry THEN runAsapTimers(timersBase, self) ELSE timersBase
     /\ rafNext' = IF reveal THEN Append(r1, Callback("unhideBody", 0, NoArg)) ELSE r1
     /\ sent' = IF reveal THEN fire(sent, busSubscribed, Event("linkReady", FALSE)) ELSE sent
     /\ IF reveal /\ busSubscribed THEN LogCall ELSE UNCHANGED nsVars
     /\ UNCHANGED <<envVars, bootVars, styleVars, watchVars, bodyDisplay,
                    ackVars, threw>>

unhideBody(rafBase, timersBase) ==
  /\ bodyDisplay' = "block"
  /\ rafNext' = rafBase
  /\ timers' = timersBase
  /\ UNCHANGED <<envVars, bootVars, styleVars, watchVars, nsVars, sent,
                 ackVars, threw>>

\* ------------------------------ keepParentInformedAboutDimensionChanges
HeightChangedAlways(known, h) == TRUE

\* knownIframeHeight !== iframeHeight
HeightChanged(known, h) == known # h

TooManyChangesNever(n) == FALSE

\* numDimensionChanges > 50
TooManyChanges(n) == n > DimensionChangeCap

iframeHeightOffsetOnly(first, sh, oh) == oh

\* isFirstTime ? documentScrollHeight : contentHeight
iframeHeightOf(first, sh, oh) == IF first THEN sh ELSE oh

WindowLoadUnfiredAlways(fired) == TRUE

\* !embedStore.windowLoadEventFired
WindowLoadUnfired(fired) == ~fired

\* how the measured height has evolved, recorded as history: "stable" when
\* the last sample found it unchanged, "changed" when the last sample found
\* it changed after an unchanged one, "runaway" once two samples in a row
\* found it changed
Growth(g, changed) ==
  IF g = "runaway" THEN "runaway"
  ELSE IF ~changed THEN "stable"
  ELSE IF g = "changed" THEN "runaway" ELSE "changed"

Record(hist, x, maxHist) == IF Len(hist) < maxHist THEN Append(hist, x) ELSE hist

\* informAboutScroll, run with isWindowLoadComplete = wlc; the document
\* measures scrollHeight = sh and offsetHeight = oh, and its height changes
\* at most L.changes times
informAboutScroll(wlc, armed, rafBase, timersBase, L, sh, oh) ==
  LET self == Callback("informAboutScroll", 0, NoArg)
      iframeHeight == iframeHeightOf(isFirstTime, sh, oh)
      changed == HeightChanged(knownIframeHeight, iframeHeight)
      n1 == IF changed THEN numDimensionChanges + 1 ELSE numDimensionChanges
      sent1 == IF WindowLoadUnfired(windowLoadEventFired)
               THEN fire(sent, busSubscribed, Event("windowLoadComplete", FALSE))
               ELSE sent
      sent2 == IF changed
               THEN fire(sent1, busSubscribed, Event("dimension-changed", isFirstTime))
               ELSE sent1
  IN /\ isWindowLoadComplete' = wlc
     /\ IF readyState # "complete"
        THEN /\ rafNext' = runAsapRaf(rafBase, self)
             /\ timers' = runAsapTimers(timersBase, self)
             /\ settleTimer' = armed
             /\ UNCHANGED <<knownIframeHeight, numDimensionChanges, isFirstTime, warned,
                            windowLoadEventFired, parentInformedAboutContentHeight,
                            sampleHist, firedHist, measuredHist, growth, sent, nsVars>>
        ELSE IF ~wlc
        THEN /\ settleTimer' = TRUE
             /\ rafNext' = rafBase
             /\ timers' = timersBase
             /\ UNCHANGED <<knownIframeHeight, numDimensionChanges, isFirstTime, warned,
                            windowLoadEventFired, parentInformedAboutContentHeight,
                            sampleHist, firedHist, measuredHist, growth, sent, nsVars>>
        ELSE /\ iframeHeight = knownIframeHeight \/ numDimensionChanges < L.changes
             /\ settleTimer' = armed
             /\ windowLoadEventFired' = TRUE
             /\ parentInformedAboutContentHeight' = TRUE
             /\ knownIframeHeight' = IF changed THEN iframeHeight ELSE knownIframeHeight
             /\ numDimensionChanges' = n1
             /\ sent' = sent2
             /\ IF sent2 # sent THEN LogCall ELSE UNCHANGED nsVars
             /\ isFirstTime' = FALSE
             /\ sampleHist' = Record(sampleHist, iframeHeight, L.hist)
             /\ firedHist' = Record(firedHist, Len(sent2) > Len(sent1), L.hist)
             /\ measuredHist' = Record(measuredHist, [scroll |-> sh, offset |-> oh], L.hist)
             /\ growth' = IF L.hist = 0 THEN growth ELSE Growth(growth, changed)
             /\ IF TooManyChanges(n1)
                THEN /\ warned' = TRUE
                     /\ rafNext' = rafBase
                     /\ timers' = timersBase
                ELSE /\ warned' = warned
                     /\ rafNext' = runAsapRaf(rafBase, self)
                     /\ timers' = runAsapTimers(timersBase, self)
     /\ UNCHANGED <<envVars, bootVars, styleVars, watcherStarted, bodyDisplay,
                    ackVars, threw>>

\* ------------------------------------------------------------ event loop
RunCallback(cb, rafBase, timersBase, L) ==
  CASE cb.fn = "style" -> style(cb.arg, cb.id, rafBase, timersBase, TRUE)
    [] cb.fn = "tryInformingLinkReady" -> tryInformingLinkReady(rafBase, timersBase)
    [] cb.fn = "unhideBody" -> unhideBody(rafBase, timersBase)
    [] cb.fn = "informAboutScroll" ->
         \E sh \in Heights, oh \in Heights :
            informAboutScroll(isWindowLoadComplete, settleTimer, rafBase, timersBase,
                              L, sh, oh)

\* a new animation frame: the callbacks requested so far are the frame's
FrameStart ==
  /\ rafCurrent = <<>>
  /\ rafNext # <<>>
  /\ rafCurrent' = rafNext
  /\ rafNext' = <<>>
  /\ UNCHANGED <<envVars, bootVars, styleVars, watchVars, nsVars, timers,
                 bodyDisplay, sent, inputs, ackVars, threw, lastMsg>>

\* the next callback of the running frame
RunFrame(L) ==
  /\ rafCurrent # <<>>
  /\ rafCurrent' = Tail(rafCurrent)
  /\ RunCallback(Head(rafCurrent), rafNext, timers, L)
  /\ UNCHANGED <<inputs, lastMsg>>

\* the oldest 50 ms timer set by runAsap expires
RunTimer(L) ==
  /\ rafCurrent = <<>>
  /\ timers # <<>>
  /\ RunCallback(Head(timers), rafNext, Tail(timers), L)
  /\ UNCHANGED <<rafCurrent, inputs, lastMsg>>

\* the 10 ms timer of informAboutScroll expires
SettleTimerFire(L) ==
  /\ rafCurrent = <<>>
  /\ settleTimer
  /\ \E sh \in Heights, oh \in Heights :
        informAboutScroll(TRUE, FALSE, rafNext, timers, L, sh, oh)
  /\ UNCHANGED <<rafCurrent, inputs, lastMsg>>

\* ------------------------------------------------ window message listener
AcceptsAnyOriginator(m) == IsString(m.method)

\* data.originator === "CAL" && typeof method === "string"
Accepts(m) == m.originator = "CAL" /\ IsString(m.method)

\* the own properties of methods
Handlers == {"ui", "parentKnowsIframeReady"}

\* the class of a delivered message, recorded as history: its originator is
\* not "CAL", its method is not a string, or its method is not a handler
Rejected(m) ==
  \/ m.originator # "CAL"
  \/ ~IsString(m.method)
  \/ m.method \notin Handlers

\* methods[method]?.(data.arg)
Dispatch(m) ==
  CASE m.method = "ui" -> style(m.arg, uiReceived + 1, rafNext, timers, FALSE)
    [] m.method = "parentKnowsIframeReady" -> parentKnowsIframeReady(rafNext, timers)
    [] m.method = "__proto__" ->
         \* Object.prototype is not callable: TypeError
         /\ threw' = TRUE
         /\ UNCHANGED <<envVars, bootVars, styleVars, watchVars, nsVars, rafNext,
                        timers, bodyDisplay, sent, ackVars>>
    [] OTHER ->
         \* no such property, or an effect-free method of Object.prototype
         UNCHANGED <<envVars, bootVars, styleVars, watchVars, nsVars, rafNext,
                     timers, bodyDisplay, sent, ackVars, threw>>

Listener(m) ==
  /\ listening
  /\ rafCurrent = <<>>
  /\ inputs' = inputs + 1
  /\ UNCHANGED rafCurrent
  /\ lastMsg' = IF Rejected(m) THEN "rejected" ELSE "accepted"
  /\ IF m # NoData /\ Accepts(m)
     THEN Dispatch(m)
     ELSE UNCHANGED <<envVars, bootVars, styleVars, watchVars, nsVars, rafNext,
                      timers, bodyDisplay, sent, ackVars, threw>>

OnMessage(L, msgs) ==
  /\ inputs < L.inputs
  /\ \E m \in msgs : Listener(m)

\* --------------------------------------------------------- specifications
Next ==
  \/ Bootstrap
  \/ Navigate(SpecLimits)
  \/ SetPlan
  \/ DocumentComplete
  \/ IsEmbedCall
  \/ Register(SpecLimits)
  \/ Unregister
  \/ OnMessage(SpecLimits, Messages)
  \/ FrameStart
  \/ RunFrame(SpecLimits)
  \/ RunTimer(SpecLimits)
  \/ SettleTimerFire(SpecLimits)

Spec == Init /\ [][Next]_vars

\* the watcher alone, in a framed embed whose page status is "200", for as
\* many height changes as the runaway guard allows
InitWatcher ==
  /\ Init
  /\ urlEmbed # NullV
  /\ urlPrerender = NullV
  /\ ~isTop

NextWatcher ==
  \/ BootstrapWith("200")
  \/ DocumentComplete
  \/ FrameStart
  \/ RunFrame(WatcherLimits)
  \/ RunTimer(WatcherLimits)
  \/ SettleTimerFire(WatcherLimits)

SpecWatcher == InitWatcher /\ [][NextWatcher]_vars

\* the style store alone, in a framed embed whose page status is "200" and
\* whose document is still loading: `ui` instructions with a UiConfig,
\* component mounts and unmounts, the plan flag, animation frames
StyleMessages ==
  {m \in Messages : m.originator = "CAL" /\ m.method = "ui" /\ m.arg.kind = "config"}

InitStyles ==
  /\ Init
  /\ urlEmbed # NullV
  /\ urlPrerender = NullV
  /\ ~isTop
  /\ ~isSafariBrowser

NextStyles ==
  \/ BootstrapWith("200")
  \/ SetPlan
  \/ Register(StyleLimits)
  \/ Unregister
  \/ OnMessage(StyleLimits, StyleMessages)
  \/ FrameStart
  \/ RunFrame(StyleLimits)

SpecStyles == InitStyles /\ [][NextStyles]_vars

\* the readiness handshake with the watcher, in a framed embed whose page
\* status is "200", for as many height changes as the runaway guard allows.
\* An instruction that arrives while the watcher is running meets the same
\* watcher whatever the number of changes reported so far, so arrivals are
\* taken up to MaxAckDelay reports and after the stop.
\* The browser runs every requested animation frame and every expired timer.
\* Frames and the 50 ms timers are weakly fair; the 10 ms timer, which the
\* model runs between two frames only while the poll keeps requesting
\* frames, is strongly fair.
AckMessages ==
  {m \in Messages : m.originator = "CAL" /\ m.method = "parentKnowsIframeReady"
                      /\ m.arg = NoArg}

\* an instruction arrives early (before the first sample or within the
\* watcher's first reports) or after the watcher has stopped
AckArrives ==
  /\ numDimensionChanges <= MaxAckDelay \/ warned
  /\ OnMessage(HandshakeLimits, AckMessages)

NextHandshake ==
  \/ BootstrapWith("200")
  \/ DocumentComplete
  \/ AckArrives
  \/ FrameStart
  \/ RunFrame(HandshakeLimits)
  \/ RunTimer(HandshakeLimits)
  \/ SettleTimerFire(HandshakeLimits)

Fairness ==
  /\ WF_vars(FrameStart)
  /\ WF_vars(RunFrame(HandshakeLimits))
  /\ WF_vars(RunTimer(HandshakeLimits))
  /\ SF_vars(SettleTimerFire(HandshakeLimits))

SpecHandshake == InitWatcher /\ [][NextHandshake]_vars /\ Fairness

\* ------------------------------------------------------------ properties
AllCallbacks == rafCurrent \o rafNext \o timers

\* scheduled callbacks of function fn
Pending(fn) == Cardinality({i \in DOMAIN AllCallbacks : AllCallbacks[i].fn = fn})

\* scheduled retries of the `ui` instruction id
PendingStyle(id) ==
  Cardinality({i \in DOMAIN AllCallbacks :
                 AllCallbacks[i].fn = "style" /\ AllCallbacks[i].id = id})

\* times the `ui` instruction id has been applied
AppliedCount(id) == Cardinality({i \in DOMAIN applied : applied[i].id = id})

\* messages of a type posted to the parent
Posted(type) == Cardinality({i \in DOMAIN sent : sent[i].type = type})

\* the state a message must leave alone to have no effect
Observable ==
  <<styles, setters, compStyles, lastInvoked, applied, bodyBackground, bodyDisplay,
    parentInformedAboutContentHeight, windowLoadEventFired, rafNext, rafCurrent,
    timers, settleTimer, sent, namespace, pkirReceived>>

\* a step of the listener: an input that is neither a mount nor a navigation
ListenerStep == inputs' = inputs + 1 /\ mounted' = mounted /\ urlEmbed' = urlEmbed

\* C1: handling a message whose originator is not "CAL", whose method is not
\* a string or whose method names no handler changes nothing: styles,
\* setters, body style, readiness flags, scheduled callbacks and the messages
\* posted to the parent stay as they were.
C1_RejectedMessageNoEffect ==
  [][(ListenerStep /\ lastMsg' = "rejected") => UNCHANGED Observable]_vars

\* a message has been delivered and the listener ignored it
C1_Witness == lastMsg = "rejected" /\ listening

C2_NoMutationWhileUnset ==
  CalComPlan = Undefined =>
    /\ styles = EmptyStyles
    /\ bodyBackground = ""
    /\ applied = <<>>
    /\ \A c \in Comps : compStyles[c] = EmptyStyles

C2_AtMostOnce == \A id \in 1..uiReceived : AppliedCount(id) + PendingStyle(id) <= 1

C2_FrameStep ==
  (rafCurrent # <<>> /\ Head(rafCurrent).fn = "style"
     /\ Head(rafCurrent).arg.kind = "config") =>
    LET cb == Head(rafCurrent) IN
      /\ CalComPlan = Undefined => rafNext' = Append(rafNext, cb) /\ applied' = applied
      /\ CalComPlan = "PRO" =>
           /\ applied' = Append(applied, [id |-> cb.id, styles |-> cb.arg.styles])
           /\ styles' = cb.arg.styles
           /\ rafNext' = rafNext

\* C2: while window.CalComPlan is unset no `ui` instruction mutates a style
\* (store, body background, component states); a deferred instruction is kept
\* for the next frame while the flag is unset, is applied by the frame that
\* finds the flag "PRO", and is never applied more than once.
C2_DeferredUiAppliedOnce ==
  [](C2_NoMutationWhileUnset /\ C2_AtMostOnce) /\ [][C2_FrameStep]_vars

\* the only input was a `ui` instruction, deferred across more than one
\* frame and then applied
C2_Witness ==
  /\ uiReceived = 1 /\ redeferred /\ Len(applied) = 1
  /\ CalComPlan = "PRO" /\ PendingStyle(1) = 0 /\ styles # EmptyStyles

\* C3: in a document that is not the top-level window the body is unhidden
\* only after a parentKnowsIframeReady instruction was received and
\* parentInformedAboutContentHeight became true.
C3_BodyHiddenUntilAck ==
  (~isTop /\ bodyDisplay = "block") =>
    (pkirReceived > 0 /\ parentInformedAboutContentHeight)

\* an embedded, framed document revealed its body
C3_Witness == ~isTop /\ listening /\ bodyDisplay = "block"

\* C4 as stated: however many parentKnowsIframeReady instructions are
\* received, linkReady is posted at most once.
C4_LinkReadyOnce == Posted("linkReady") <= 1

\* C4 amended: linkReady is posted exactly once for each
\* parentKnowsIframeReady received, and not before
\* parentInformedAboutContentHeight is true: every instruction is either
\* still polling or has posted its one linkReady.
C4_LinkReadyOncePerInstruction ==
  /\ Posted("linkReady") + Pending("tryInformingLinkReady") = pkirReceived
  /\ Posted("linkReady") > 0 => parentInformedAboutContentHeight

\* two instructions were received and both polls have ended
C4_Witness == pkirReceived = 2 /\ Posted("linkReady") = 2

\* the first four recorded samples are 500, 500, 500, 800
C5_Sequence == Len(sampleHist) >= 4 /\ SubSeq(sampleHist, 1, 4) = <<500, 500, 500, 800>>

\* sample i differs from the sample before it
C5_Differs(i) == i > 1 /\ sampleHist[i] # sampleHist[i - 1]

\* C5 as stated: for the heights 500, 500, 500, 800 only the fourth sample
\* posts dimension-changed, and a sample posts it only when its height
\* differs from the preceding measured height.
C5_OnlyOnHeightChange ==
  /\ \A i \in DOMAIN firedHist : firedHist[i] => C5_Differs(i)
  /\ C5_Sequence => SubSeq(firedHist, 1, 4) = <<FALSE, FALSE, FALSE, TRUE>>

\* C5 amended: the first sample always posts dimension-changed, and a later
\* sample posts it exactly when its height differs from the preceding
\* measured height; for the heights 500, 500, 500, 800 that is two events,
\* on the first sample and on the sample that measures 800.
C5_FirstSampleAndChanges ==
  /\ Len(firedHist) = Len(sampleHist)
  /\ \A i \in DOMAIN firedHist : firedHist[i] <=> (i = 1 \/ C5_Differs(i))
  /\ C5_Sequence => SubSeq(firedHist, 1, 4) = <<TRUE, FALSE, FALSE, TRUE>>

\* the watcher has measured 500, 500, 500, 800
C5_Witness == C5_Sequence /\ Posted("dimension-changed") = 2

\* C6 as stated: the watcher posts at most 50 dimension-changed events.
C6_AtMostFiftyEvents == Posted("dimension-changed") <= DimensionChangeCap

\* C6 amended: the watcher posts at most 51 dimension-changed events: the
\* 51st change is still posted, and with it the watcher warns and stops
\* rescheduling, so that no 52nd event follows.
C6_AtMostFiftyOneEvents ==
  /\ Posted("dimension-changed") = numDimensionChanges
  /\ numDimensionChanges <= DimensionChangeCap + 1
  /\ warned <=> numDimensionChanges = DimensionChangeCap + 1
  /\ warned => (Pending("informAboutScroll") = 0 /\ ~settleTimer)

\* the watcher has stopped with the warning
C6_Witness == warned /\ Posted("dimension-changed") = DimensionChangeCap + 1

\* C7: handling an inbound message never raises an uncaught error, whatever
\* its originator, method and arg and whatever window.CalComPlan is.
C7_NeverRaises == ~threw

\* C8: in a document loaded with prerender=true nothing of the embed protocol
\* is set up: no message is posted to the parent, neither the message
\* listener nor the bus subscription is installed, the watcher is not started.
C8_PrerenderSkipsBootstrap ==
  urlPrerender = "true" =>
    /\ sent = <<>>
    /\ ~listening /\ ~busSubscribed /\ ~watcherStarted
    /\ AllCallbacks = <<>> /\ ~settleTimer
    /\ ~parentInformedAboutContentHeight /\ ~windowLoadEventFired

\* the module has been loaded in an embed with prerender=true
C8_Witness == loaded /\ urlPrerender = "true" /\ bodyDisplay = "none"

\* C9 as stated: every call of getNamespace returns what the first call
\* returned, null included.
C9_NamespaceStable == nsFirst # Undefined => nsRet = nsFirst

\* C9 amended: once a call of getNamespace has returned a non-null value,
\* every later call returns that value whatever the URL has become; a null
\* result is not cached and the next call reads the URL again.
C9_NonNullNamespaceStable ==
  /\ [](isValidNamespace(nsFirst) => (nsRet = nsFirst /\ namespace = nsFirst))
  /\ [][isValidNamespace(nsRet) => nsRet' = nsRet]_vars

\* getNamespace returned the cached value after the URL had lost its embed
\* parameter
C9_Witness == nsFirst = "abc" /\ nsUrlAtCall = NullV /\ nsRet = "abc"

\* {...a, ...b} applied to the attributes of every target
DeepMerge(a, b) ==
  [t \in (DOMAIN a) \cup (DOMAIN b) |->
     IF t \in DOMAIN a /\ t \in DOMAIN b THEN SpreadMerge(a[t], b[t])
     ELSE IF t \in DOMAIN b THEN b[t] ELSE a[t]]

RECURSIVE MergeAll(_)
\* the merge of the broadcast payloads, in order
MergeAll(log) ==
  IF log = <<>> THEN EmptyStyles
  ELSE DeepMerge(MergeAll(SubSeq(log, 1, Len(log) - 1)), log[Len(log)].styles)

\* C10: the stored styles are the merge of all broadcast payloads in order,
\* and the components a broadcast invoked hold that merge; styles of a target
\* set by an earlier broadcast stay stored after a broadcast that does not
\* mention the target.
C10_StoreIsMergeOfBroadcasts == styles = MergeAll(applied)

\* styles[elementName] || {}: what useEmbedStyles returns to the component
Slice(st, elementName) ==
  IF elementName \in DOMAIN st THEN st[elementName] ELSE [a \in {} |-> ""]

RECURSIVE ReceivedAll(_)
\* the React state of a component that registered before the broadcasts of
\* log and whose setter received each of them
ReceivedAll(log) ==
  IF log = <<>> THEN EmptyStyles
  ELSE SpreadMerge(ReceivedAll(SubSeq(log, 1, Len(log) - 1)), log[Len(log)].styles)

\* C11: a component whose setter is registered holds, for its element, the
\* styles that a component registered before all broadcasts holds after
\* receiving each of them, however late it registered itself.
C11_LateRegistrationHoldsEarlyState ==
  \A c \in RegisteredComps :
    Slice(compStyles[c], ElementName(c)) = Slice(ReceivedAll(applied), ElementName(c))

\* C12: `ui` instructions are applied in the order they were delivered: an
\* instruction that was deferred is never applied after one that arrived
\* later, so the last instruction applied is the last one delivered.
C12_AppliedInDeliveryOrder ==
  \A i, j \in DOMAIN applied : i < j => applied[i].id < applied[j].id

\* the style state a `ui` instruction mutates, and the retries it schedules
StyleEffects == <<styles, bodyBackground, compStyles, lastInvoked, applied, rafNext, timers>>

\* the plan flag is set to a value other than "PRO"
C13_NotEntitled == CalComPlan # Undefined /\ CalComPlan # "PRO"

\* a `ui` instruction delivered while the flag is not "PRO" changes nothing
C13_ListenerRejects ==
  (ListenerStep /\ uiReceived' = uiReceived + 1 /\ C13_NotEntitled) =>
    UNCHANGED StyleEffects

\* a deferred `ui` instruction whose frame finds the flag not "PRO" is dropped
C13_FrameRejects ==
  (rafCurrent # <<>> /\ Head(rafCurrent).fn = "style" /\ C13_NotEntitled) =>
    UNCHANGED StyleEffects

\* an instruction that is neither applied nor scheduled stays so
C13_NeverLater ==
  \A id \in 1..uiReceived :
    (AppliedCount(id) = 0 /\ PendingStyle(id) = 0) =>
      (AppliedCount(id)' = 0 /\ PendingStyle(id)' = 0)

\* C13: a `ui` instruction handled while window.CalComPlan is set to a value
\* other than "PRO" mutates no style (store, body background, component
\* states), schedules no retry, and is not applied later, whatever the flag
\* becomes.
C13_RejectedUiNeverApplied ==
  [][C13_ListenerRejects /\ C13_FrameRejects /\ C13_NeverLater]_vars

\* the only `ui` instruction was rejected, the flag is "PRO" now, and the
\* instruction is neither applied nor scheduled
C13_Witness ==
  /\ uiReceived = 1 /\ inputs = 1 /\ ~threw /\ CalComPlan = "PRO"
  /\ applied = <<>> /\ PendingStyle(1) = 0 /\ styles = EmptyStyles

\* the position in the outbox of the first message of a type, 0 when none
FirstPosted(type) ==
  IF Posted(type) = 0 THEN 0
  ELSE CHOOSE i \in DOMAIN sent :
         sent[i].type = type /\ \A j \in 1..(i - 1) : sent[j].type # type

\* C14: windowLoadComplete is posted at most once, and exactly once as soon
\* as the watcher has sampled; it is posted only when the document is
\* complete and the paint-settled flag is set, and before the first
\* dimension-changed; no later watcher cycle posts it again.
C14_WindowLoadCompleteOnce ==
  /\ Posted("windowLoadComplete") <= 1
  /\ Posted("windowLoadComplete") = 1 <=> windowLoadEventFired
  /\ parentInformedAboutContentHeight => Posted("windowLoadComplete") = 1
  /\ Posted("windowLoadComplete") = 1 =>
        (readyState = "complete" /\ isWindowLoadComplete)
  /\ Posted("dimension-changed") > 0 =>
        (Posted("windowLoadComplete") = 1
           /\ FirstPosted("windowLoadComplete") < FirstPosted("dimension-changed"))

\* the watcher has sampled in several cycles after it posted
\* windowLoadComplete
C14_Witness ==
  /\ Posted("windowLoadComplete") = 1
  /\ Posted("dimension-changed") >= 3
  /\ Len(sampleHist) >= 4

\* the handshake has completed: the poll found the flag, linkReady is posted
\* and the body is visible
C15_Done ==
  /\ parentInformedAboutContentHeight
  /\ Posted("linkReady") > 0
  /\ Pending("tryInformingLinkReady") = 0
  /\ bodyDisplay = "block"

\* C15: in a framed embed whose page status is "200", once the document is
\* complete and a parentKnowsIframeReady instruction has been received, the
\* poll eventually finds parentInformedAboutContentHeight true, linkReady is
\* eventually posted and the body eventually becomes visible, whether the
\* instruction arrived before the first sample, while the watcher was
\* sampling, or after the watcher had stopped at its cap.
C15_HandshakeCompletes ==
  (readyState = "complete" /\ pkirReceived > 0) ~> C15_Done

\* the instruction arrived after the watcher had stopped, and the handshake
\* has completed
C15_Witness == pkirPhase = "stopped" /\ warned /\ C15_Done

\* C16: the first sample reports the scroll height and every later sample the
\* offset height; the flag isFirstTime is true until the first sample and
\* false afterwards; the first sample posts a dimension-changed, and among
\* the dimension-changed events posted exactly the first carries
\* isFirstTime = true.
C16_FirstSampleScrollThenOffset ==
  /\ Len(measuredHist) = Len(sampleHist)
  /\ \A i \in DOMAIN sampleHist :
        sampleHist[i] = IF i = 1 THEN measuredHist[i].scroll ELSE measuredHist[i].offset
  /\ isFirstTime <=> ~parentInformedAboutContentHeight
  /\ parentInformedAboutContentHeight => Posted("dimension-changed") > 0
  /\ \A i \in DOMAIN sent :
        sent[i].type = "dimension-changed" =>
          (sent[i].isFirstTime <=> i = FirstPosted("dimension-changed"))

\* scroll and offset height differed on the first two samples, and both
\* samples posted a dimension-changed
C16_Witness ==
  /\ Len(measuredHist) >= 2
  /\ measuredHist[1].scroll # measuredHist[1].offset
  /\ measuredHist[2].scroll # measuredHist[2].offset
  /\ firedHist[1] /\ firedHist[2]

\* C17: the watcher stops rescheduling itself only after runaway growth: as
\* long as the measured height reached a fixed point (an unchanged sample)
\* between any two changes, the watcher is not stopped.
C17_StopsOnlyOnRunaway == warned => growth = "runaway"

\* the element names of a set of components
TargetsOf(cs) == {ElementName(c) : c \in cs}

\* C18: a broadcast invokes setters of mounted components only, and it
\* invokes a setter for every element name that has a mounted component,
\* whatever mounts and unmounts came before, two components with the same
\* element name included.
C18_BroadcastReachesMountedTargets ==
  [][applied' # applied =>
       (lastInvoked' \subseteq mounted /\ TargetsOf(lastInvoked') = TargetsOf(mounted))]_vars

\* the module was loaded in an embed without prerender: exactly one of
\* iframeReady and linkFailed is posted, as the first message; the watcher is
\* started with iframeReady and only then; after linkFailed nothing else is
\* ever posted and the flag the poll waits for stays false
C19_OneOfReadyOrFailed ==
  (loaded /\ listening) =>
    /\ Posted("iframeReady") + Posted("linkFailed") = 1
    /\ sent[1].type \in {"iframeReady", "linkFailed"}
    /\ Posted("iframeReady") = 1 <=> watcherStarted
    /\ Posted("linkFailed") = 1 =>
          /\ Len(sent) = 1
          /\ ~parentInformedAboutContentHeight /\ ~windowLoadEventFired
          /\ Pending("informAboutScroll") = 0 /\ ~settleTimer

\* the module load that sets up the embed posts iframeReady exactly when
\* window.CalComPageStatus is absent or "200"
C19_ReadyIffStatusOk ==
  \A pageStatus \in PageStatuses :
    (BootstrapWith(pageStatus) /\ listening') =>
      (Posted("iframeReady")' = 1 <=> (pageStatus = Undefined \/ pageStatus = "200"))

\* C19: at the load of an embedded document without prerender exactly one of
\* iframeReady and linkFailed is posted: iframeReady, with the watcher
\* started, iff the page status is absent or "200", linkFailed otherwise;
\* after linkFailed the watcher is never started and no windowLoadComplete,
\* dimension-changed or linkReady is posted, even when
\* parentKnowsIframeReady is received.
C19_ReadyXorFailedAtBootstrap ==
  []C19_OneOfReadyOrFailed /\ [][C19_ReadyIffStatusOk]_vars

\* linkFailed was posted, two parentKnowsIframeReady instructions were
\* received since, and their polls are still waiting
C19_Witness ==
  /\ Posted("linkFailed") = 1 /\ pkirReceived = 2
  /\ Pending("tryInformingLinkReady") = 2 /\ readyState = "complete"

\* the first message of type a is posted before the first of type b
C20_Before(a, b) == Posted(a) > 0 /\ FirstPosted(a) < FirstPosted(b)

\* C20: the messages posted to the parent are ordered: iframeReady before
\* windowLoadComplete, windowLoadComplete before the first dimension-changed,
\* which carries isFirstTime = true, and that before any linkReady, whenever
\* parentKnowsIframeReady arrived.
C20_OutboundOrder ==
  /\ Posted("windowLoadComplete") > 0 => C20_Before("iframeReady", "windowLoadComplete")
  /\ Posted("dimension-changed") > 0 =>
        /\ C20_Before("windowLoadComplete", "dimension-changed")
        /\ sent[FirstPosted("dimension-changed")].isFirstTime
  /\ Posted("linkReady") > 0 => C20_Before("dimension-changed", "linkReady")

\* parentKnowsIframeReady arrived before the watcher had sampled, and all
\* four messages have been posted
C20_Witness ==
  /\ pkirPhase = "unsampled" /\ pkirReceived = 1
  /\ Posted("iframeReady") = 1 /\ Posted("windowLoadComplete") = 1
  /\ Posted("dimension-changed") > 0 /\ Posted("linkReady") = 1
====
